---- MODULE Spec2Model ----
(***************************************************************************)
(* Offline-first synchronisation of ParkAudit Pro.                         *)
(*                                                                         *)
(* Two local queues exist in the sources:                                  *)
(*   - the IndexedDB object store 'pendingAudits' of the service worker    *)
(*     (client/public/sw.js), drained by syncOfflineEntries;               *)
(*   - the localStorage key 'pendingAuditEntries' written by the page      *)
(*     (client/src/lib/storage.ts, the confirmation view, settings view).  *)
(* The remote store is the server's audit-entry map (server/storage.ts).   *)
(***************************************************************************)
EXTENDS Integers, Sequences, FiniteSets, TLC

\* ---------------------------------------------------------------- bounds
MaxRecords == 2      \* records ever added to the IndexedDB store
MaxPasses  == 2      \* executions of syncOfflineEntries (sync triggers) overall
MaxRows    == 2      \* audit entries the server map may hold
MaxLocal   == 2      \* entries that fit in localStorage before the quota
MaxSaves   == 3      \* successful localStorage enqueues overall

Plates    == {"ABC123", "XYZ789"}
SyncPlates == {"ABC123"}   \* one plate, where records need not differ by plate number
Passes    == 1..MaxPasses
Undefined == "undefined"
NoItem    == [present |-> FALSE, text |-> <<>>]  \* an absent localStorage key
NoValue   == "none"       \* a promise that has not settled
Rejected  == "rejected"   \* a promise that was rejected
NoCapture == [null |-> TRUE]   \* captureData before a capture is loaded
Latitudes == {Undefined, "40.7"}

VARIABLES
  online,         \* the platform's connectivity
  store,          \* IndexedDB object store 'pendingAudits', in key order
  pc,             \* per pass: position inside syncOfflineEntries
  pendingAudits,  \* per pass: the local const of syncOfflineEntries
  idx,            \* per pass: position of the for-of loop (1-based)
  returned,       \* per pass: settled value of the syncOfflineEntries promise
  reply,          \* last answer posted on the port of a STORE_OFFLINE_AUDIT message
  auditEntries,   \* MemStorage.auditEntries, in creation order
  googleSheetsSyncQueue,  \* MemStorage.googleSheetsSyncQueue: a set of entry ids
  syncResult,     \* what the last syncPendingToGoogleSheets call returned
  pendingItem,    \* localStorage['pendingAuditEntries']: NoItem or an Item
  captureData,    \* confirmation view: the capture being confirmed
  isPending,      \* confirmation view: createAuditEntryMutation.isPending
  \* history variables: they record what happened and steer no handler
  \* (the length of lsLog only caps the number of enqueues explored)
  acked,          \* per pass: ids whose POST returned ok in this pass
  alone,          \* per pass: no other pass was active or started since it began
  enqLog,         \* plate numbers stored by addPendingAudit, in call order
  idbWrite,       \* what became of the add request of the last STORE_OFFLINE_AUDIT
  restored,       \* connectivity came back with records pending, no pass started since
  lsLog,          \* entries successfully pushed to pendingAuditEntries, in order
  lsDeleted,      \* serials of entries deleted by a clear/remove operation
  lsWrite,        \* what became of the setItem of the last addPendingEntry call
  lsReturn,       \* how the last addPendingEntry call completed for its caller
  pendingSync,    \* OfflineIndicator state: the count on the badge
  offlineEntries, \* history view: data of the 'offline-audit-entries' query
  fetching,       \* history view: the run of the feed's queryFn that is in flight
  historyData     \* history view: what the feed's queryFn returned for the current key

vars == <<online, store, pc, pendingAudits, idx, returned, reply, auditEntries,
          googleSheetsSyncQueue, syncResult,
          pendingItem, captureData, isPending, acked, alone, enqLog, idbWrite,
          restored, lsLog, lsDeleted, lsWrite, lsReturn, pendingSync,
          offlineEntries, fetching, historyData>>

sheetVars == <<googleSheetsSyncQueue, syncResult>>
passVars == <<pc, pendingAudits, idx, returned, acked, alone>>
portVars == <<reply, idbWrite>>
swVars == <<store, passVars, portVars, enqLog, restored>>
addVars == <<lsWrite, lsReturn>>
feedVars == <<offlineEntries, fetching, historyData>>
viewVars == <<pendingSync, feedVars>>
lsVars == <<pendingItem, captureData, isPending, lsLog, lsDeleted, addVars, viewVars>>
queueVars == <<pendingItem, lsLog, lsDeleted>>

Active == {"reading", "fetching", "marking"}

\* ------------------------------------------------------ IndexedDB helpers
Ids(s) == {s[i].id : i \in DOMAIN s}

\* variant: the records come newest key first
GetAllDescending(s) == [i \in 1..Len(s) |-> s[Len(s) + 1 - i]]

\* IDBObjectStore.getAll(): every record, in ascending order of its key
GetAll(s) == s

\* variant: the filter keeps the synced records
GetPendingAuditsInverted(s) == SelectSeq(s, LAMBDA audit : audit.synced)

\* sw.js getPendingAudits: store.getAll() (key order) filtered by !synced
GetPendingAudits(s) == SelectSeq(GetAll(s), LAMBDA audit : ~audit.synced)

\* sw.js addPendingAudit: store.add({...audit, timestamp: Date.now(), synced: false})
\* keyPath 'id' with autoIncrement: the key generator hands out 1, 2, 3, ...
AddPendingAudit(s, audit, t) ==
  Append(s, [id |-> Len(s) + 1, plateNumber |-> audit.plateNumber,
             location |-> audit.location, timestamp |-> t, synced |-> FALSE])

\* the captures of the model: each plate is seen at one place
LocationOf(plate) == IF plate = "ABC123" THEN "Lot A" ELSE "Gate B"
Audit(plate) == [plateNumber |-> plate, location |-> LocationOf(plate)]

\* Date.now() at an add, when the clock has advanced since the previous add
Now(s) == Len(s) + 1

\* Date.now() at an add, in general: the wall clock of the device, which a
\* time synchronisation or the user can set back between two adds
ClockReadings == 1..MaxRecords

\* variant: the flag is flipped instead of set
MarkAuditSyncedToggle(s, id) ==
  [i \in DOMAIN s |-> IF s[i].id = id THEN [s[i] EXCEPT !.synced = ~@] ELSE s[i]]

\* variant: every record of the store is marked
MarkAuditSyncedAll(s, id) ==
  [i \in DOMAIN s |-> [s[i] EXCEPT !.synced = TRUE]]

\* sw.js markAuditSynced: get(id); if (audit) { audit.synced = true; put(audit) }
MarkAuditSynced(s, id) ==
  IF id \in Ids(s)
  THEN [i \in DOMAIN s |-> IF s[i].id = id THEN [s[i] EXCEPT !.synced = TRUE] ELSE s[i]]
  ELSE s

\* server/storage.ts createAuditEntry: a fresh id for every call.
\* origin is a history field: the id of the IndexedDB record the request was
\* built from, Direct for a request of the confirmation view.
Direct == 0

\* timestamp: new Date() on the server, whose clock is not the device's
\* A row stays in the sequence when the entry is deleted from the map, flagged
\* deleted, so that no id is handed out twice.
CreateAuditEntry(rows, insertEntry, origin) ==
  Append(rows, [id |-> Len(rows) + 1, plateNumber |-> insertEntry.plateNumber,
                location |-> insertEntry.location, origin |-> origin,
                timestamp |-> Len(rows) + 1, syncedToGoogleSheets |-> FALSE,
                deleted |-> FALSE])

\* this.auditEntries.values(), this.auditEntries.get(id)
Values(rows) == SelectSeq(rows, LAMBDA entry : ~entry.deleted)
Exists(rows, id) == \E i \in DOMAIN rows : rows[i].id = id /\ ~rows[i].deleted

\* storage.ts deleteAuditEntry
DeleteFromMap(rows, id) ==
  [i \in DOMAIN rows |-> IF rows[i].id = id THEN [rows[i] EXCEPT !.deleted = TRUE]
                         ELSE rows[i]]

\* storage.ts updateAuditEntry(id, {syncedToGoogleSheets: true, ...})
MarkSyncedToGoogleSheets(rows, id) ==
  [i \in DOMAIN rows |->
     IF rows[i].id = id /\ ~rows[i].deleted
     THEN [rows[i] EXCEPT !.syncedToGoogleSheets = TRUE] ELSE rows[i]]

\* storage.ts queueForGoogleSheetsSync
QueueForGoogleSheetsSync(queue, entryId) == queue \cup {entryId}

NoResult == [returned |-> FALSE, synced |-> 0, failed |-> 0, existing |-> 0]

\* variant: an entry whose export failed is dropped from the queue
SyncEntryDropFailed(state, entryId, exported) ==
  IF ~Exists(state.rows, entryId)
  THEN [state EXCEPT !.queue = @ \ {entryId}]
  ELSE IF exported
       THEN [state EXCEPT !.rows = MarkSyncedToGoogleSheets(@, entryId),
                          !.queue = @ \ {entryId}, !.synced = @ + 1]
       ELSE [state EXCEPT !.queue = @ \ {entryId}, !.failed = @ + 1]

\* storage.ts syncPendingToGoogleSheets, one turn of the loop.  exported: the
\* credentials are configured and nothing in the try block threw.
SyncEntry(state, entryId, exported) ==
  IF ~Exists(state.rows, entryId)
  THEN [state EXCEPT !.queue = @ \ {entryId}]
  ELSE IF exported
       THEN [state EXCEPT !.rows = MarkSyncedToGoogleSheets(@, entryId),
                          !.queue = @ \ {entryId}, !.synced = @ + 1]
       ELSE [state EXCEPT !.failed = @ + 1]

\* the loop over Array.from(queue): ids in order of insertion, which is the
\* order of the ids.  threw: the ids for which the try block throws.
RECURSIVE SyncLoop(_, _, _, _)
SyncLoop(state, pendingIds, configured, threw) ==
  IF pendingIds = {} THEN state
  ELSE LET entryId == CHOOSE id \in pendingIds : \A other \in pendingIds : id <= other
       IN  SyncLoop(SyncEntry(state, entryId, configured /\ entryId \notin threw),
                    pendingIds \ {entryId}, configured, threw)

\* ---------------------------------------------------- localStorage helpers
Get(obj, field) == IF field \in DOMAIN obj THEN obj[field] ELSE Undefined

\* JSON.stringify of one object: properties whose value is undefined are omitted
StringifyEntry(e) ==
  IF Get(e, "latitude") = Undefined
  THEN [plateNumber |-> e.plateNumber, serial |-> e.serial]
  ELSE [plateNumber |-> e.plateNumber, latitude |-> e.latitude, serial |-> e.serial]

\* JSON.stringify of the entries array
Stringify(entries) == [i \in DOMAIN entries |-> StringifyEntry(entries[i])]

\* a stored key: its text is the JSON array
Item(json) == [present |-> TRUE, text |-> json]

\* JSON.parse of a stored array: the objects as written
Parse(text) == text

\* the fields a reader of an entry sees
Fields == {"plateNumber", "latitude", "serial"}
SameEntry(a, b) == \A f \in Fields : Get(a, f) = Get(b, f)

\* storage.ts getPendingEntries: stored ? JSON.parse(stored) : []
GetPendingEntries(item) == IF item.present THEN Parse(item.text) ELSE <<>>

\* localStorage.setItem throws QuotaExceededError when the value does not fit
Fits(entries) == Len(entries) <= MaxLocal

\* variant: the stored array is not read back before the write
AddPendingEntryOverwrite(item, entry) ==
  Item(Stringify(<<entry>>))

\* storage.ts addPendingEntry: push and setItem, any error is caught and logged
AddPendingEntry(item, entry) ==
  LET entries == Append(GetPendingEntries(item), entry) IN
  IF Fits(entries) THEN Item(Stringify(entries)) ELSE item

\* storage.ts addPendingEntry 35-41: the body is one try block whose catch logs
\* 'Failed to save pending entry', so the call returns normally whatever setItem did
AddPendingEntryCompletion(item, entry) == "returned"

\* Array.prototype.splice(index, 1)
Splice(entries, index) ==
  LET len   == Len(entries)
      start == IF index < 0 THEN (IF len + index < 0 THEN 0 ELSE len + index)
               ELSE (IF index > len THEN len ELSE index)
  IN  \* start is 0-based
      IF start >= len THEN entries
      ELSE SubSeq(entries, 1, start) \o SubSeq(entries, start + 2, len)

\* storage.ts removePendingEntry
RemovePendingEntry(item, index) ==
  Item(Stringify(Splice(GetPendingEntries(item), index)))

\* confirmation view saveToLocalStorage: pending ? JSON.parse(pending) : [],
\* push, setItem; nothing catches a failing setItem
SaveToLocalStorage(item, entry) ==
  LET entries == Append(IF item.present THEN Parse(item.text) ELSE <<>>, entry) IN
  IF Fits(entries) THEN Item(Stringify(entries)) ELSE item

Serials(entries) == {Get(entries[i], "serial") : i \in DOMAIN entries}

\* ---------------------------------------------------- history view helpers
\* Date.prototype.toISOString and new Date(iso).getTime()
ToISOString(ms) == [iso |-> ms]
GetTime(text) == text.iso

\* String.prototype.toLowerCase and includes, on the strings of the model
SearchTerms == {"", "ABC", "lot"}
ToLowerCase(str) ==
  CASE str = "ABC123" -> "abc123"
    [] str = "XYZ789" -> "xyz789"
    [] str = "ABC" -> "abc"
    [] str = "Lot A" -> "lot a"
    [] str = "Gate B" -> "gate b"
    [] OTHER -> str
Includes(text, part) ==
  \/ part = ""
  \/ text = part
  \/ <<text, part>> \in {<<"abc123", "abc">>, <<"lot a", "lot">>}

\* Array.prototype.sort with a comparator: stable, a before b when the
\* comparator is negative.  cmp[i][j] is the comparator applied to s[i] and s[j].
Sort(s, cmp) ==
  LET rank(i) == 1 + Cardinality({j \in DOMAIN s :
                       \/ cmp[j][i] < 0
                       \/ cmp[j][i] = 0 /\ j < i})
  IN  [k \in 1..Len(s) |-> s[CHOOSE i \in DOMAIN s : rank(i) = k]]

\* history-view.tsx getPendingAudits: getAll, drop the synced, convert.
\* (plateNumber || 'UNKNOWN': the plate numbers of the model are never empty)
GetPendingAuditsView(s) ==
  LET pending == SelectSeq(s, LAMBDA audit : ~audit.synced)
  IN  [i \in 1..Len(pending) |->
         [id |-> <<"offline", pending[i].id>>,
          plateNumber |-> pending[i].plateNumber,
          timestamp |-> ToISOString(pending[i].timestamp),
          location |-> pending[i].location,
          isOffline |-> TRUE]]

\* storage.ts getAuditEntries, page 1: filter, newest first, slice.  The search
\* looks at plateNumber, location and parkingZone; the entries of the model have
\* no parkingZone.
Limit == 20
RowNewestFirst(a, b) == b.timestamp - a.timestamp
GetAuditEntries(rows, search) ==
  LET found  == IF search = "" THEN Values(rows)
                ELSE SelectSeq(Values(rows), LAMBDA entry :
                       \/ Includes(ToLowerCase(entry.plateNumber), ToLowerCase(search))
                       \/ Includes(ToLowerCase(entry.location), ToLowerCase(search)))
      sorted == Sort(found, [i \in DOMAIN found |-> [j \in DOMAIN found |->
                                RowNewestFirst(found[i], found[j])]])
      total  == Len(sorted)
  IN  [entries |-> SubSeq(sorted, 1, IF Limit < total THEN Limit ELSE total),
       total |-> total, hasMore |-> Limit < total]

\* res.json(result): ids are UUID strings, dates become ISO strings
ToJson(result) ==
  [entries |-> [i \in 1..Len(result.entries) |->
                  [id |-> <<"server", result.entries[i].id>>,
                   plateNumber |-> result.entries[i].plateNumber,
                   location |-> result.entries[i].location,
                   origin |-> result.entries[i].origin,
                   timestamp |-> ToISOString(result.entries[i].timestamp)]],
   total |-> result.total, hasMore |-> result.hasMore]

\* what the view reads as entry.isOffline
IsOffline(entry) == "isOffline" \in DOMAIN entry /\ entry.isOffline

\* history-view.tsx 142-147, 173-178: the offline entries that match the search
FilterOffline(offline, searchTerm) ==
  IF searchTerm = "" THEN offline
  ELSE SelectSeq(offline, LAMBDA entry :
         Includes(ToLowerCase(entry.plateNumber), ToLowerCase(searchTerm)))

\* variant: oldest first
OldestFirst(a, b) == GetTime(a.timestamp) - GetTime(b.timestamp)

\* history-view.tsx 160: the comparator of allEntries.sort
NewestFirst(a, b) == GetTime(b.timestamp) - GetTime(a.timestamp)

NoData == [loaded |-> FALSE, entries |-> <<>>, total |-> 0, hasMore |-> FALSE,
           fetched |-> FALSE]

\* history-view.tsx 133-167: the result when the fetch returned ok
MergedFeed(offline, searchTerm, onlineData) ==
  LET filteredOffline == FilterOffline(offline, searchTerm)
      allEntries      == filteredOffline \o onlineData.entries
      compared        == [i \in DOMAIN allEntries |-> [j \in DOMAIN allEntries |->
                            NewestFirst(allEntries[i], allEntries[j])]]
  IN  [loaded |-> TRUE, entries |-> Sort(allEntries, compared),
       total |-> onlineData.total + Len(filteredOffline),
       hasMore |-> onlineData.hasMore, fetched |-> TRUE]

\* variant: the catch returns every offline entry
OfflineOnlyUnfiltered(offline, searchTerm) ==
  [loaded |-> TRUE, entries |-> offline, total |-> Len(offline),
   hasMore |-> FALSE, fetched |-> FALSE]

\* history-view.tsx 169-188: the result when the fetch threw or was not ok
OfflineOnly(offline, searchTerm) ==
  LET filteredOffline == FilterOffline(offline, searchTerm)
  IN  [loaded |-> TRUE, entries |-> filteredOffline, total |-> Len(filteredOffline),
       hasMore |-> FALSE, fetched |-> FALSE]

Init ==
  /\ online = TRUE
  /\ store = <<>>
  /\ pc = [p \in Passes |-> "idle"]
  /\ pendingAudits = [p \in Passes |-> <<>>]
  /\ idx = [p \in Passes |-> 0]
  /\ returned = [p \in Passes |-> NoValue]
  /\ reply = "none"
  /\ idbWrite = "none"
  /\ restored = FALSE
  /\ auditEntries = <<>>
  /\ googleSheetsSyncQueue = {}
  /\ syncResult = NoResult
  /\ pendingItem = NoItem
  /\ captureData = NoCapture
  /\ isPending = FALSE
  /\ acked = [p \in Passes |-> {}]
  /\ alone = [p \in Passes |-> FALSE]
  /\ enqLog = <<>>
  /\ lsLog = <<>>
  /\ lsDeleted = {}
  /\ lsWrite = "none"
  /\ lsReturn = "none"
  /\ pendingSync = 0
  /\ offlineEntries = [loaded |-> FALSE, data |-> <<>>]
  /\ fetching = [active |-> FALSE, searchTerm |-> ""]
  /\ historyData = NoData

\* ------------------------------------------------------------ environment
\* the platform reports 'online'; App.tsx handleOnline: setIsOnline(true)
GoOnline ==
  /\ ~online
  /\ online' = TRUE
  /\ restored' = (GetPendingAudits(store) # <<>>)
  /\ UNCHANGED <<store, passVars, portVars, enqLog, auditEntries, sheetVars, lsVars>>

\* the platform reports 'offline'; App.tsx handleOffline: setIsOnline(false)
GoOffline ==
  /\ online
  /\ online' = FALSE
  /\ restored' = FALSE
  /\ UNCHANGED <<store, passVars, portVars, enqLog, auditEntries, sheetVars, lsVars>>

\* ------------------------------------------------------- service worker
\* the add request fails (QuotaExceededError) once the database is full
IdbFits(s) == Len(s) < MaxRecords

\* message {type: 'STORE_OFFLINE_AUDIT', audit}: addPendingAudit(audit), then an
\* answer on the port.  opened: whether openDB resolves; now: what Date.now()
\* reads.  addPendingAudit returns
\* the request of store.add without waiting for it, so its promise is resolved,
\* and {success: true} posted, before the request succeeds or fails.
StoreOfflineAudit(plate, opened, now) ==
  /\ IF ~opened
     THEN /\ reply' = "failure"
          /\ idbWrite' = "none"
          /\ UNCHANGED <<store, enqLog>>
     ELSE /\ reply' = "success"
          /\ IF IdbFits(store)
             THEN /\ store' = AddPendingAudit(store, Audit(plate), now)
                  /\ enqLog' = Append(enqLog, plate)
                  /\ idbWrite' = "stored"
             ELSE /\ idbWrite' = "failed"
                  /\ UNCHANGED <<store, enqLog>>
  /\ UNCHANGED <<online, passVars, restored, auditEntries, sheetVars, lsVars>>

\* syncOfflineEntries() is entered; it suspends in getPendingAudits at openDB
StartPass(p) ==
  /\ pc[p] = "idle"
  /\ p > 1 => pc[p - 1] # "idle"
  /\ pc' = [pc EXCEPT ![p] = "reading"]
  /\ pendingAudits' = [pendingAudits EXCEPT ![p] = <<>>]
  /\ idx' = [idx EXCEPT ![p] = 0]
  /\ returned' = [returned EXCEPT ![p] = NoValue]
  /\ acked' = [acked EXCEPT ![p] = {}]
  /\ alone' = [q \in Passes |-> IF q = p THEN \A r \in Passes \ {p} : pc[r] \notin Active
                                          ELSE FALSE]
  /\ restored' = FALSE
  /\ UNCHANGED <<online, store, portVars, auditEntries, sheetVars, enqLog, lsVars>>

\* 'sync' event with tag 'audit-sync'
SyncEvent(p) == StartPass(p)

\* message {type: 'SYNC_AUDITS'}
SyncAuditsMessage(p) == StartPass(p)

\* the loop moves to the next audit (issuing its fetch) or the function returns
NextAudit(p, i) ==
  IF i < Len(pendingAudits'[p])
  THEN /\ pc' = [pc EXCEPT ![p] = "fetching"]
       /\ idx' = [idx EXCEPT ![p] = i + 1]
       /\ UNCHANGED returned
  ELSE /\ pc' = [pc EXCEPT ![p] = "done"]
       /\ idx' = [idx EXCEPT ![p] = i]
       /\ returned' = [returned EXCEPT ![p] = Undefined]

\* variant: the outer catch rethrows
OnTotalFailureRethrow(p) ==
  /\ pc' = [pc EXCEPT ![p] = "caught"]
  /\ returned' = [returned EXCEPT ![p] = Rejected]
  /\ UNCHANGED <<pendingAudits, idx>>

\* sw.js outer catch: 'Background sync failed' is logged and the function returns
OnTotalFailure(p) ==
  /\ pc' = [pc EXCEPT ![p] = "caught"]
  /\ returned' = [returned EXCEPT ![p] = Undefined]
  /\ UNCHANGED <<pendingAudits, idx>>

\* routes.ts POST /api/audit-entries once the body is validated:
\* createAuditEntry, queueForGoogleSheetsSync(entry.id), res.json(entry)
PostAuditEntries(insertEntry, origin) ==
  /\ auditEntries' = CreateAuditEntry(auditEntries, insertEntry, origin)
  /\ googleSheetsSyncQueue' =
       QueueForGoogleSheetsSync(googleSheetsSyncQueue, Len(auditEntries) + 1)
  /\ UNCHANGED syncResult

\* getPendingAudits settles.  opened: whether openDB and getAll succeed; a
\* database that could be read stays usable for the rest of the pass.
ReadPending(p, opened) ==
  /\ pc[p] = "reading"
  /\ IF opened
     THEN /\ pendingAudits' = [pendingAudits EXCEPT ![p] = GetPendingAudits(store)]
          /\ NextAudit(p, 0)
     ELSE OnTotalFailure(p)
  /\ UNCHANGED <<online, store, portVars, restored, auditEntries, sheetVars, acked, alone,
                 enqLog, lsVars>>

Outcomes == {"ok", "rejected", "threw"}

\* variant: any response counts as success
ResponseOkAnyResponse(outcome) == outcome # "threw"

\* sw.js: if (response.ok)
ResponseOk(outcome) == outcome = "ok"

\* variant: a failed record ends the pass
OnFailureAbort(p) ==
  /\ pc' = [pc EXCEPT ![p] = "done"]
  /\ returned' = [returned EXCEPT ![p] = Undefined]
  /\ UNCHANGED idx

\* sw.js inner catch (and a response that is not ok): log, go on with the loop
OnFailure(p) == NextAudit(p, idx[p])

\* the fetch of POST /api/audit-entries settles.  "ok": the route created the
\* entry and answered 2xx; "rejected": it answered 401/400/500 and created
\* nothing; "threw": the request failed in the network.
PostSettles(p, outcome) ==
  /\ pc[p] = "fetching"
  /\ outcome \in {"ok", "rejected"} => online
  /\ UNCHANGED pendingAudits
  /\ LET audit == pendingAudits[p][idx[p]] IN
     /\ IF outcome = "ok"
        THEN /\ Len(auditEntries) < MaxRows
             /\ PostAuditEntries([plateNumber |-> audit.plateNumber,
                                  location |-> audit.location], audit.id)
             /\ acked' = [acked EXCEPT ![p] = @ \cup {audit.id}]
        ELSE UNCHANGED <<auditEntries, sheetVars, acked>>
     /\ IF ResponseOk(outcome)
        THEN /\ pc' = [pc EXCEPT ![p] = "marking"]
             /\ UNCHANGED <<idx, returned>>
        ELSE OnFailure(p)
  /\ UNCHANGED <<online, store, portVars, restored, alone, enqLog, lsVars>>

\* await markAuditSynced(id) completes
MarkSynced(p) ==
  /\ pc[p] = "marking"
  /\ store' = MarkAuditSynced(store, pendingAudits[p][idx[p]].id)
  /\ UNCHANGED pendingAudits
  /\ NextAudit(p, idx[p])
  /\ UNCHANGED <<online, portVars, restored, auditEntries, sheetVars, acked, alone, enqLog, lsVars>>

\* the browser terminates the service worker: every pass in flight is abandoned
Terminate ==
  /\ \E p \in Passes : pc[p] \in Active
  /\ pc' = [p \in Passes |-> IF pc[p] \in Active THEN "killed" ELSE pc[p]]
  /\ UNCHANGED <<online, store, pendingAudits, idx, returned, portVars, restored,
                 auditEntries, sheetVars, acked, alone, enqLog, lsVars>>

SwNext ==
  \/ \E plate \in SyncPlates : StoreOfflineAudit(plate, TRUE, Now(store))
  \/ \E p \in Passes : SyncEvent(p)
  \/ \E p \in Passes : SyncAuditsMessage(p)
  \/ \E p \in Passes, opened \in BOOLEAN : ReadPending(p, opened)
  \/ \E p \in Passes, o \in Outcomes : PostSettles(p, o)
  \/ \E p \in Passes : MarkSynced(p)
  \/ Terminate

\* ------------------------------------------------------------------ page
\* entry is pushed; serial is a history field numbering the successful pushes
Enqueue(newItem, entry) ==
  /\ pendingItem' = newItem
  /\ IF newItem # pendingItem
     THEN lsLog' = Append(lsLog, entry)
     ELSE UNCHANGED lsLog
  /\ UNCHANGED lsDeleted

\* a caller of LocalStorageService.addPendingEntry
CallAddPendingEntry(plate, lat) ==
  /\ Len(lsLog) < MaxSaves
  /\ LET entry == [plateNumber |-> plate, latitude |-> lat, serial |-> Len(lsLog) + 1]
     IN  /\ Enqueue(AddPendingEntry(pendingItem, entry), entry)
         /\ lsWrite' = IF Fits(Append(GetPendingEntries(pendingItem), entry))
                       THEN "stored" ELSE "failed"
         /\ lsReturn' = AddPendingEntryCompletion(pendingItem, entry)
  /\ UNCHANGED <<online, swVars, auditEntries, sheetVars, captureData, isPending, viewVars>>

\* a delete: the serials that were stored and are no longer
Delete(newItem) ==
  /\ pendingItem' = newItem
  /\ lsDeleted' = lsDeleted \cup (Serials(GetPendingEntries(pendingItem))
                                    \ Serials(GetPendingEntries(newItem)))
  /\ UNCHANGED lsLog

CallRemovePendingEntry(index) ==
  /\ Delete(RemovePendingEntry(pendingItem, index))
  /\ UNCHANGED <<online, swVars, auditEntries, sheetVars, captureData, isPending, addVars, viewVars>>

\* storage.ts clearPendingEntries
ClearPendingEntries ==
  /\ Delete(NoItem)
  /\ UNCHANGED <<online, swVars, auditEntries, sheetVars, captureData, isPending, addVars, viewVars>>

\* storage.ts clearAllData
ClearAllData ==
  /\ Delete(NoItem)
  /\ UNCHANGED <<online, swVars, auditEntries, sheetVars, captureData, isPending, addVars, viewVars>>

\* settings view, 'Clear Local Data' confirmed
HandleClearLocalData ==
  /\ Delete(NoItem)
  /\ UNCHANGED <<online, swVars, auditEntries, sheetVars, captureData, isPending, addVars, viewVars>>

\* App.tsx checkPendingSync: the state is set only when the item is there
Polled(count, item) == IF item.present THEN Len(Parse(item.text)) ELSE count

\* OfflineIndicator: on mount and then every 5 s
CheckPendingSync ==
  /\ pendingSync' = Polled(pendingSync, pendingItem)
  /\ UNCHANGED <<online, swVars, auditEntries, sheetVars, captureData, isPending, queueVars,
                 addVars, feedVars>>

\* the 'offline-audit-entries' query runs getPendingAudits (on mount, and again
\* once stale).  opened: whether IndexedDB could be read; if not the catch gives [].
\* New data changes the key of the feed query: a run in flight is for the old
\* key, and the new key has no data yet.
LoadOfflineEntries(opened) ==
  LET data == IF opened THEN GetPendingAuditsView(store) ELSE <<>> IN
  /\ ~(offlineEntries.loaded /\ offlineEntries.data = data)
  /\ offlineEntries' = [loaded |-> TRUE, data |-> data]
  /\ fetching' = [active |-> FALSE, searchTerm |-> ""]
  /\ historyData' = NoData
  /\ UNCHANGED <<online, swVars, auditEntries, sheetVars, captureData, isPending, queueVars,
                 addVars, pendingSync>>

\* the feed query starts its queryFn (enabled once offlineEntries is defined):
\* fetch('/api/audit-entries?page=1&limit=20&search=...')
RunQuery(searchTerm) ==
  /\ offlineEntries.loaded
  /\ ~fetching.active
  /\ fetching' = [active |-> TRUE, searchTerm |-> searchTerm]
  /\ historyData' = NoData
  /\ UNCHANGED <<online, swVars, auditEntries, sheetVars, captureData, isPending, queueVars,
                 addVars, pendingSync, offlineEntries>>

\* the fetch settles and the queryFn returns
FetchSettles(outcome) ==
  /\ fetching.active
  /\ fetching' = [active |-> FALSE, searchTerm |-> ""]
  /\ historyData' =
       IF outcome = "ok"
       THEN MergedFeed(offlineEntries.data, fetching.searchTerm,
                       ToJson(GetAuditEntries(auditEntries, fetching.searchTerm)))
       ELSE OfflineOnly(offlineEntries.data, fetching.searchTerm)
  /\ UNCHANGED <<online, swVars, auditEntries, sheetVars, captureData, isPending, queueVars,
                 addVars, pendingSync, offlineEntries>>

\* camera view stores currentCapture; the confirmation view mounts and loads it.
\* copies is a history field: the entries saveToLocalStorage has stored for
\* this capture.
LoadCapture(plate, lat) ==
  /\ captureData = NoCapture
  /\ ~isPending
  /\ captureData' = [plateNumber |-> plate, latitude |-> lat, copies |-> 0]
  /\ UNCHANGED <<online, swVars, auditEntries, sheetVars, isPending, queueVars, addVars, viewVars>>

\* confirmation view handleSave: createAuditEntryMutation.mutate(entryData)
HandleSave ==
  /\ captureData # NoCapture
  /\ ~isPending
  /\ isPending' = TRUE
  /\ UNCHANGED <<online, swVars, auditEntries, sheetVars, captureData, queueVars, addVars, viewVars>>

\* the mutation's POST returns 2xx: onSuccess clears the capture
SaveSucceeds ==
  /\ isPending
  /\ online
  /\ Len(auditEntries) < MaxRows
  /\ PostAuditEntries(Audit(captureData.plateNumber), Direct)
  /\ captureData' = NoCapture
  /\ isPending' = FALSE
  /\ UNCHANGED <<online, swVars, queueVars, addVars, viewVars>>

\* the mutation's POST fails: onError calls saveToLocalStorage; the capture
\* stays loaded and the Save button is enabled again
SaveFails ==
  /\ isPending
  /\ Len(lsLog) < MaxSaves
  /\ isPending' = FALSE
  /\ LET entry == [plateNumber |-> captureData.plateNumber,
                   latitude |-> captureData.latitude, serial |-> Len(lsLog) + 1]
     IN  /\ Enqueue(SaveToLocalStorage(pendingItem, entry), entry)
         /\ captureData' = IF SaveToLocalStorage(pendingItem, entry) # pendingItem
                           THEN [captureData EXCEPT !.copies = @ + 1]
                           ELSE captureData
  /\ UNCHANGED <<online, swVars, auditEntries, sheetVars, addVars, viewVars>>

\* confirmation view handleDiscard
HandleDiscard ==
  /\ captureData # NoCapture
  /\ ~isPending
  /\ captureData' = NoCapture
  /\ UNCHANGED <<online, swVars, auditEntries, sheetVars, isPending, queueVars, addVars, viewVars>>

PageNext ==
  \/ \E plate \in SyncPlates, lat \in Latitudes : CallAddPendingEntry(plate, lat)
  \/ \E index \in -1..MaxLocal : CallRemovePendingEntry(index)
  \/ ClearPendingEntries
  \/ ClearAllData
  \/ HandleClearLocalData
  \/ \E plate \in SyncPlates, lat \in Latitudes : LoadCapture(plate, lat)
  \/ HandleSave
  \/ SaveSucceeds
  \/ SaveFails
  \/ HandleDiscard

Connectivity ==
  \/ GoOnline
  \/ GoOffline

\* the service worker, its IndexedDB queue and the server
Next ==
  \/ Connectivity
  \/ SwNext

Spec == Init /\ [][Next]_vars

\* The steps of a running pass are taken by the event loop once their promise
\* settles.  Nothing in the code schedules a trigger (no SyncManager.register,
\* no message posted to the worker), so the triggers carry no fairness.
PassStep ==
  \/ \E p \in Passes, opened \in BOOLEAN : ReadPending(p, opened)
  \/ \E p \in Passes, outcome \in Outcomes : PostSettles(p, outcome)
  \/ \E p \in Passes : MarkSynced(p)

LiveSpec == Spec /\ WF_vars(PassStep)

\* the page, its localStorage queue and the server
PageSpecNext ==
  \/ Connectivity
  \/ PageNext

PageSpec == Init /\ [][PageSpecNext]_vars

\* enqueues into either queue and the indicator: no sync pass, no clear, no remove
EnqueueNext ==
  \/ Connectivity
  \/ \E plate \in Plates, opened \in BOOLEAN : StoreOfflineAudit(plate, opened, Now(store))
  \/ \E plate \in Plates, lat \in Latitudes : CallAddPendingEntry(plate, lat)
  \/ \E plate \in Plates, lat \in Latitudes : LoadCapture(plate, lat)
  \/ HandleSave
  \/ SaveFails
  \/ CheckPendingSync

EnqueueSpec == Init /\ [][EnqueueNext]_vars

\* the history view beside one sync pass of the service worker
FeedNext ==
  \/ \E plate \in Plates : StoreOfflineAudit(plate, TRUE, Now(store))
  \/ SyncAuditsMessage(1)
  \/ \E opened \in BOOLEAN : ReadPending(1, opened)
  \/ \E outcome \in Outcomes : PostSettles(1, outcome)
  \/ MarkSynced(1)
  \/ \E opened \in BOOLEAN : LoadOfflineEntries(opened)
  \/ \E searchTerm \in SearchTerms : RunQuery(searchTerm)
  \/ \E outcome \in Outcomes : FetchSettles(outcome)

FeedSpec == Init /\ [][FeedNext]_vars

\* a client posts an entry: the route as seen from the server
PostRoute(plate) ==
  /\ Len(auditEntries) < MaxRows
  /\ PostAuditEntries(Audit(plate), Direct)
  /\ UNCHANGED <<online, swVars, lsVars>>

\* a caller of MemStorage.deleteAuditEntry
DeleteAuditEntry(id) ==
  /\ Exists(auditEntries, id)
  /\ auditEntries' = DeleteFromMap(auditEntries, id)
  /\ UNCHANGED <<online, swVars, lsVars, sheetVars>>

\* routes.ts POST /api/sync/google-sheets: syncPendingToGoogleSheets().
\* configured: both GOOGLE_SHEETS_API_KEY and GOOGLE_SHEETS_ID are set.
\* Every await of the call is on a settled promise, so no other request runs
\* between two turns of its loop.
SyncPendingToGoogleSheets(configured, threw) ==
  LET start == [rows |-> auditEntries, queue |-> googleSheetsSyncQueue,
                synced |-> 0, failed |-> 0]
      end   == SyncLoop(start, googleSheetsSyncQueue, configured, threw)
  IN  /\ auditEntries' = end.rows
      /\ googleSheetsSyncQueue' = end.queue
      /\ syncResult' = [returned |-> TRUE, synced |-> end.synced, failed |-> end.failed,
                        existing |-> Cardinality({id \in googleSheetsSyncQueue :
                                                   Exists(auditEntries, id)})]
      /\ UNCHANGED <<online, swVars, lsVars>>

\* the server alone: entries posted and deleted, and the Google Sheets queue
ServerNext ==
  \/ \E plate \in Plates : PostRoute(plate)
  \/ \E id \in 1..MaxRows : DeleteAuditEntry(id)
  \/ \E configured \in BOOLEAN, threw \in SUBSET (1..MaxRows) :
       SyncPendingToGoogleSheets(configured, threw)

ServerSpec == Init /\ [][ServerNext]_vars

\* the offline indicator beside the localStorage queue it counts
IndicatorNext ==
  \/ \E plate \in Plates, lat \in Latitudes : CallAddPendingEntry(plate, lat)
  \/ ClearPendingEntries
  \/ ClearAllData
  \/ HandleClearLocalData
  \/ CheckPendingSync

IndicatorSpec == Init /\ [][IndicatorNext]_vars

\* one sync pass over records stamped by a wall clock that may be set back
OrderNext ==
  \/ \E plate \in Plates, now \in ClockReadings : StoreOfflineAudit(plate, TRUE, now)
  \/ SyncEvent(1)
  \/ ReadPending(1, TRUE)
  \/ \E outcome \in Outcomes : PostSettles(1, outcome)
  \/ MarkSynced(1)

OrderSpec == Init /\ [][OrderNext]_vars
\* ================================================================ claims
\* the ids of the records whose POST a pass has issued so far
Posted(p) == {pendingAudits[p][i].id : i \in 1..idx[p]}

ActivePasses == {p \in Passes : pc[p] \in Active}
AckedIds == UNION {acked[p] : p \in Passes}
PendingIds == Ids(GetPendingAudits(store))
Listed(entry, listing) == \E j \in DOMAIN listing : SameEntry(listing[j], entry)

\* C1: at most one execution of syncOfflineEntries is active at any time.
OnePassAtATime == Cardinality(ActivePasses) <= 1

\* C2: while two passes overlap, no record is POSTed by both.
OverlapPostsOnce ==
  \A p, q \in Passes :
    (p < q /\ pc[p] \in Active /\ pc[q] \in Active) => Posted(p) \cap Posted(q) = {}

\* C3: a record whose flag is synced has had a POST for it answered ok.
SyncedOnlyAfterAck ==
  \A i \in DOMAIN store : store[i].synced => store[i].id \in AckedIds

SyncedOnlyAfterAckWitness ==
  \E p \in Passes : pc[p] = "done" /\ \E i \in DOMAIN store : store[i].synced

AtMostOneRowPerRecord ==
  \A j, k \in DOMAIN auditEntries :
    (j < k /\ auditEntries[j].origin # Direct) =>
      auditEntries[j].origin # auditEntries[k].origin

\* C6: a record that is synced stays synced and is never listed as pending again.
SyncStateMonotonic ==
  [][\A i \in DOMAIN store :
       store[i].synced =>
         /\ i \in DOMAIN store'
         /\ store'[i].synced
         /\ store[i].id \notin Ids(GetPendingAudits(store'))]_vars

SyncStateMonotonicWitness ==
  \E p, q \in Passes :
    /\ p < q
    /\ pc[q] = "done"
    /\ \E id \in acked[p] \cap acked[q] : store[id].synced

\* C7: a failed create-request leaves the store as it is and the pass goes on
\* with the next record; a pass that returns has attempted every record it read.
FailureContinues ==
  [][\A p \in Passes :
       /\ (/\ pc[p] = "fetching"
           /\ pc'[p] \in {"fetching", "done"}
           /\ pc'[p] = "fetching" => idx'[p] # idx[p])
          => /\ store' = store
             /\ IF idx[p] < Len(pendingAudits[p])
                THEN pc'[p] = "fetching" /\ idx'[p] = idx[p] + 1
                ELSE pc'[p] = "done"
       /\ pc'[p] = "done" => idx'[p] = Len(pendingAudits'[p])]_vars

FailureContinuesWitness ==
  \E p \in Passes :
    /\ pc[p] = "done"
    /\ Len(pendingAudits[p]) >= 2
    /\ pendingAudits[p][1].id \notin acked[p]
    /\ ~store[pendingAudits[p][1].id].synced
    /\ pendingAudits[p][2].id \in acked[p]

\* C8: a pass that returns hands its caller {attempted, synced, failed} with
\* attempted the records read, synced those acknowledged and marked, failed the rest.
ReturnsSyncResult ==
  \A p \in Passes :
    pc[p] = "done" =>
      /\ returned[p] # Undefined
      /\ returned[p] # NoValue
      /\ returned[p].attempted = Len(pendingAudits[p])
      /\ returned[p].synced = Cardinality(acked[p])
      /\ returned[p].failed = Len(pendingAudits[p]) - Cardinality(acked[p])

EnqueueOrderPreserved ==
  /\ LET listing == GetPendingAudits(store) IN
       /\ Len(listing) = Len(enqLog)
       /\ \A i \in DOMAIN listing :
            /\ listing[i].plateNumber = enqLog[i]
            /\ ~listing[i].synced
            /\ \A j \in DOMAIN listing : listing[j].id = listing[i].id => j = i
  /\ LET listing == GetPendingEntries(pendingItem) IN
       /\ Len(listing) = Len(lsLog)
       /\ \A i \in DOMAIN listing : SameEntry(listing[i], lsLog[i])

EnqueueOrderPreservedWitness ==
  /\ ~online
  /\ Len(enqLog) >= 2
  /\ enqLog[1] # enqLog[2]
  /\ Len(lsLog) >= 2
  /\ lsLog[1].plateNumber # lsLog[2].plateNumber
  /\ lsLog[1].latitude = Undefined
\* C11: markAuditSynced applied twice to any id gives the store that one
\* application gives, and applied to an id that is not stored it changes nothing.
MarkSyncedIdempotent ==
  \A id \in 1..(MaxRecords + 1) :
    /\ MarkAuditSynced(MarkAuditSynced(store, id), id) = MarkAuditSynced(store, id)
    /\ id \notin Ids(store) => MarkAuditSynced(store, id) = store

MarkSyncedIdempotentWitness ==
  \E p \in Passes :
    /\ pc[p] = "marking"
    /\ store[pendingAudits[p][idx[p]].id].synced
    /\ \E i \in DOMAIN store : ~store[i].synced

\* C12: whenever connectivity comes back while records are pending, a sync pass
\* is eventually started (or the device goes offline again).
ReconnectStartsPass == restored ~> ~restored

\* C20: the promise of a sync pass is never rejected, whether a request throws
\* or the queue cannot be opened or read, and the step on which the read fails
\* leaves the stored queue as it was.
SyncAbsorbsErrors ==
  [][/\ \A p \in Passes : returned'[p] # Rejected
     /\ \A p \in Passes : pc[p] = "reading" /\ pc'[p] = "caught" => store' = store]_vars

SyncAbsorbsErrorsWitness ==
  \E p \in Passes :
    /\ pc[p] = "caught"
    /\ returned[p] = Undefined
    /\ GetPendingAudits(store) # <<>>

\* C13: while the request that saves a capture is in flight, the capture is
\* already an entry of the local queue.
QueuedBeforeRequest ==
  isPending =>
    \E j \in DOMAIN GetPendingEntries(pendingItem) :
      /\ Get(GetPendingEntries(pendingItem)[j], "plateNumber") = captureData.plateNumber
      /\ Get(GetPendingEntries(pendingItem)[j], "latitude") = captureData.latitude

\* C14: an enqueue whose local write failed has told its caller so, and an
\* enqueue that reported success has stored its record, in either queue.
EnqueueReportsWrite ==
  /\ lsWrite = "failed" => lsReturn = "threw"
  /\ lsReturn = "returned" => lsWrite = "stored"
  /\ idbWrite = "failed" => reply = "failure"
  /\ reply = "success" => idbWrite = "stored"

\* C19: the count the indicator shows once it has polled is the number of
\* records pending in the queue that syncOfflineEntries drains.
IndicatorCountsSyncQueue ==
  Polled(pendingSync, pendingItem) = Len(GetPendingAudits(store))

\* a step on which the feed's queryFn returns its value
FeedReturned == historyData'.loaded /\ ~historyData.loaded

\* C15: when a feed is returned, each of its entries tagged isOffline is a local
\* record that is pending at that moment, and no entry of the server is tagged.
FeedLocalOnlyWhilePending ==
  [][FeedReturned =>
       \A i \in DOMAIN historyData'.entries :
         LET entry == historyData'.entries[i] IN
         IF IsOffline(entry)
         THEN entry.id[1] = "offline" /\ ~store'[entry.id[2]].synced
         ELSE entry.id[1] = "server"]_vars

\* C16: no returned feed holds both the pending entry of a record and the
\* server entry created from that record.
FeedDeduplicated ==
  \A i, j \in DOMAIN historyData.entries :
    ~(/\ IsOffline(historyData.entries[i])
      /\ ~IsOffline(historyData.entries[j])
      /\ historyData.entries[j].origin = historyData.entries[i].id[2])

\* C17: a feed returned after a successful fetch is sorted by timestamp, newest first.
FeedSortedNewestFirst ==
  historyData.fetched =>
    \A i \in 1..(Len(historyData.entries) - 1) :
      GetTime(historyData.entries[i].timestamp)
        >= GetTime(historyData.entries[i + 1].timestamp)

FeedSortedNewestFirstWitness ==
  /\ historyData.fetched
  /\ \E i, j \in DOMAIN historyData.entries :
       /\ i < j
       /\ ~IsOffline(historyData.entries[i])
       /\ IsOffline(historyData.entries[j])
       /\ GetTime(historyData.entries[i].timestamp)
            > GetTime(historyData.entries[j].timestamp)

\* C18: when the fetch throws or is not ok the queryFn still returns: exactly the
\* offline entries that match the search, their number as total, hasMore false.
FetchFailureGivesPending ==
  [][/\ (fetching.active /\ ~fetching'.active /\ offlineEntries' = offlineEntries)
          => historyData'.loaded
     /\ (FeedReturned /\ ~historyData'.fetched) =>
          /\ historyData'.entries =
               SelectSeq(offlineEntries.data, LAMBDA entry :
                 \/ fetching.searchTerm = ""
                 \/ Includes(ToLowerCase(entry.plateNumber),
                             ToLowerCase(fetching.searchTerm)))
          /\ historyData'.total = Len(historyData'.entries)
          /\ historyData'.hasMore = FALSE]_vars

FetchFailureGivesPendingWitness ==
  /\ historyData.loaded
  /\ ~historyData.fetched
  /\ historyData.entries # <<>>
  /\ Len(historyData.entries) < Len(offlineEntries.data)

\* a pass issues its requests in the order of pendingAudits; record k of the
\* list has been dealt with once the loop has moved past it
Before(p, k) == k < idx[p] \/ (k = idx[p] /\ pc[p] = "done")
MarkedBeforeNext(p) ==
  \A k \in DOMAIN pendingAudits[p] :
    (Before(p, k) /\ pendingAudits[p][k].id \in acked[p])
      => store[pendingAudits[p][k].id].synced

ClockNeverSetBack ==
  \A i, j \in DOMAIN store : i < j => store[i].timestamp <= store[j].timestamp
OneRequestPerRecord ==
  [][/\ \A p \in Passes :
          /\ (pc'[p] = "fetching" /\ <<pc[p], idx[p]>> # <<pc'[p], idx'[p]>>)
               => idx'[p] = idx[p] + 1
          /\ pc'[p] = "done" =>
               /\ idx'[p] = Len(pendingAudits'[p])
               /\ Cardinality(Ids(pendingAudits'[p])) = Len(pendingAudits'[p])
     /\ (\E p \in Passes : pc[p] = "idle" /\ pc'[p] # "idle")
          => \E p \in Passes : SyncEvent(p) \/ SyncAuditsMessage(p)]_vars

OneRequestPerRecordWitness ==
  \E p \in Passes :
    /\ pc[p] = "done"
    /\ Len(pendingAudits[p]) >= 2
    /\ \E k \in DOMAIN pendingAudits[p] :
         /\ pendingAudits[p][k].id \notin acked[p]
         /\ ~store[pendingAudits[p][k].id].synced
    /\ \A q \in Passes : q > p => pc[q] = "idle"

\* records whose request in pass q has failed: the loop has moved past them
\* without an acknowledgment
FailedIn(q) ==
  {pendingAudits[q][k].id : k \in {j \in DOMAIN pendingAudits[q] :
      Before(q, j) /\ pendingAudits[q][j].id \notin acked[q]}}

FallbackInSyncQueue ==
  [][(isPending /\ ~isPending' /\ pendingItem' # pendingItem)
       => \E i \in DOMAIN GetPendingAudits(store') :
            GetPendingAudits(store')[i].plateNumber = captureData.plateNumber]_vars

\* C28: the count the indicator shows once it has polled is the number of
\* entries of the localStorage queue, 0 when the key has been removed.
IndicatorFollowsClear ==
  Polled(pendingSync, pendingItem) = Len(GetPendingEntries(pendingItem))

\* C29: removePendingEntry(index) removes the entry at position index and keeps
\* the others in order; for an index outside 0..length-1 the queue is unchanged.
RemovesExactlyIndex ==
  \A index \in -1..(MaxLocal + 1) :
    LET entries == GetPendingEntries(pendingItem)
        after   == GetPendingEntries(RemovePendingEntry(pendingItem, index))
    IN  IF 0 <= index /\ index < Len(entries)
        THEN after = SubSeq(entries, 1, index) \o SubSeq(entries, index + 2, Len(entries))
        ELSE after = entries

\* C27: a capture never has more than one pending copy in the local queue, and
\* no server row is created for a capture that has a pending copy.
OneCopyPerCapture ==
  [][/\ captureData' # NoCapture => captureData'.copies <= 1
     /\ Len(auditEntries') > Len(auditEntries) => captureData.copies = 0]_vars

\* C25: in a feed returned after a successful fetch, a pending entry and a
\* server row of another record with the same plate number and location are
\* both in the feed or both left out.
FilterParity ==
  [][(FeedReturned /\ historyData'.fetched) =>
       \A i \in DOMAIN offlineEntries.data : \A j \in DOMAIN auditEntries :
         LET pending == offlineEntries.data[i]
             row     == auditEntries[j]
             InFeed(id) == \E k \in DOMAIN historyData'.entries :
                             historyData'.entries[k].id = id
         IN  (/\ pending.plateNumber = row.plateNumber
              /\ pending.location = row.location
              /\ row.origin # pending.id[2])
               => (InFeed(pending.id) <=> InFeed(<<"server", row.id>>))]_vars

\* C30: an id leaves the Google Sheets queue only when its entry is marked
\* syncedToGoogleSheets or no longer exists, and the counts a call returns add
\* up to the number of queued ids whose entry existed when the call began.
LeavesQueueOnlySynced ==
  [][/\ \A id \in googleSheetsSyncQueue \ googleSheetsSyncQueue' :
          \/ ~Exists(auditEntries', id)
          \/ \E i \in DOMAIN auditEntries' :
               auditEntries'[i].id = id /\ auditEntries'[i].syncedToGoogleSheets
     /\ syncResult'.synced + syncResult'.failed = syncResult'.existing]_vars

LeavesQueueOnlySyncedWitness ==
  /\ syncResult.returned
  /\ syncResult.synced > 0
  /\ syncResult.failed > 0
  /\ \E id \in googleSheetsSyncQueue :
       \E i \in DOMAIN auditEntries :
         auditEntries[i].id = id /\ ~auditEntries[i].deleted
           /\ ~auditEntries[i].syncedToGoogleSheets
  /\ \E i \in DOMAIN auditEntries :
       auditEntries[i].syncedToGoogleSheets
         /\ auditEntries[i].id \notin googleSheetsSyncQueue
====
